---- MODULE Spec2Model ----
(***************************************************************************)
(* A model of crates/mako/src/generate.rs: the full build                  *)
(* (Compiler::generate), the dev re-emit (Compiler::emit_dev_chunks) and   *)
(* the hot-update rebuild (Compiler::generate_hot_update_chunks).          *)
(*                                                                         *)
(* File names are sequences of dot-separated segments: "main.js" is        *)
(* <<"main", "js">>, "main" is <<"main">>.  rsplit_once('.') is then the   *)
(* split before the last segment, and format!("{a}.{b}") is \o.            *)
(***************************************************************************)
EXTENDS Integers, Sequences, FiniteSets, TLC

VARIABLES
    driver,        \* who calls the compiler: the build command or the watch loop
    config,        \* self.context.config: mode, minify, devtool
    module_graph,  \* module id -> content version (0: not in the graph)
    chunk_graph,   \* self.context.chunk_graph: the chunks in get_chunks() order
    assets_info,   \* self.context.assets_info: sequence of <<source, output>>
    src_files,     \* asset source files that exist under context.root
    dir_exists,    \* config.output.path.exists()
    dist,          \* the files of the output directory: name -> content
    pc,            \* the position of the running call ("idle": none)
    frame,         \* the running call's arguments and locals
    cg_readers,    \* read guards the running call holds on chunk_graph
    assets_locked, \* the running call holds the assets_info mutex
    result,        \* what the last call returned
    stored_hash,   \* the full hash the caller persists (the client's hash)
    keyed,         \* hashes under which an earlier call wrote a file
    rebuilds,      \* calls started so far
    log            \* the running call's steps, in order

vars == <<driver, config, module_graph, chunk_graph, assets_info, src_files, dir_exists,
          dist, pc, frame, cg_readers, assets_locked, result, stored_hash,
          keyed, rebuilds, log>>

(* Bounds of the model. *)
MaxRebuilds == 3
MaxBuilds == 2
MaxSegments == 3

ModuleIds == {"e", "s", "a", "b", "c", "n"}

None == [none |-> TRUE]

(* ---------------- collaborators outside generate.rs ---------------- *)

(* Chunk::filename *)
filename(c) == c.id

(* Chunk::has_module *)
has_module(c, m_id) == m_id \in c.modules

Present(mg, ms) == {m \in ms : mg[m] > 0}

(* group_chunk: the chunk graph of a module graph.  "e" is the entry      *)
(* module, "s" a module shared by the entry chunk and the async chunk of  *)
(* "a"; "b" is an async module imported by "a" alone, "c" a stylesheet,   *)
(* "n" a module whose output AST is neither script nor stylesheet.        *)
GroupChunk(mg) ==
    <<[id |-> <<"main", "js">>, kind |-> "Script",
       modules |-> Present(mg, {"e", "s"})]>>
    \o (IF mg["a"] > 0
        THEN <<[id |-> <<"a", "js">>, kind |-> "Script",
                modules |-> Present(mg, {"a", "s"})]>>
        ELSE << >>)
    \o (IF mg["a"] > 0 /\ mg["b"] > 0
        THEN <<[id |-> <<"b", "async", "js">>, kind |-> "Script", modules |-> {"b"}]>>
        ELSE << >>)
    \o (IF mg["c"] > 0
        THEN <<[id |-> <<"main", "css">>, kind |-> "Css", modules |-> {"c"}]>>
        ELSE << >>)
    \o (IF mg["n"] > 0
        THEN <<[id |-> <<"n">>, kind |-> "None", modules |-> {"n"}]>>
        ELSE << >>)

(* ChunkGraph::get_chunks *)
get_chunks(cg) == cg

(* ChunkGraph::chunk_names *)
chunk_names(cg) == {filename(cg[i]) : i \in 1..Len(cg)}

(* ChunkGraph::get_chunk_by_name *)
get_chunk_by_name(cg, name) ==
    IF \E i \in 1..Len(cg) : filename(cg[i]) = name
    THEN cg[CHOOSE i \in 1..Len(cg) : filename(cg[i]) = name]
    ELSE None

(* Compiler::full_hash: a fingerprint of the content of every module. *)
full_hash(mg) ==
    mg["e"] + 3 * mg["s"] + 9 * mg["a"] + 27 * mg["b"] + 81 * mg["c"] + 243 * mg["n"]

(* Compiler::generate_hmr_chunk: the patch code of one chunk. *)
generate_hmr_chunk(mg, chunk, modified, hash) ==
    [hmr |-> filename(chunk),
     modules |-> {<<m, mg[m]>> : m \in chunk.modules \cap modified},
     hash |-> hash]

(* ---------------- generate.rs: helpers ---------------- *)

(* format!("{}", hash) of a u64 *)
HashStr(hash) == ToString(hash)

(* the hash left out of the name *)
to_hot_update_chunk_name_NoHash(chunk_name, hash) ==
    IF Len(chunk_name) = 1
    THEN chunk_name \o <<"hot-update">>
    ELSE SubSeq(chunk_name, 1, Len(chunk_name) - 1)
         \o <<"hot-update", chunk_name[Len(chunk_name)]>>

(* the name split at its first dot: split_once for rsplit_once *)
to_hot_update_chunk_name_SplitFirst(chunk_name, hash) ==
    IF Len(chunk_name) = 1
    THEN chunk_name \o <<HashStr(hash), "hot-update">>
    ELSE <<chunk_name[1]>> \o <<HashStr(hash), "hot-update">> \o Tail(chunk_name)

(* lines 338-347: rsplit_once('.') and the two formats *)
to_hot_update_chunk_name(chunk_name, hash) ==
    IF Len(chunk_name) = 1
    THEN chunk_name \o <<HashStr(hash), "hot-update">>
    ELSE LET left == SubSeq(chunk_name, 1, Len(chunk_name) - 1)
             ext  == chunk_name[Len(chunk_name)]
         IN  left \o <<HashStr(hash), "hot-update", ext>>

(* format!("{}.hot-update.json", last_full_hash) *)
ManifestName(last_full_hash) == <<HashStr(last_full_hash), "hot-update", "json">>

(* the two serialize names exchanged *)
HotUpdateManifest_Swapped(modified_chunks, removed_chunks) ==
    <<<<"r", modified_chunks>>, <<"c", removed_chunks>>>>

(* serde_json::to_string(&HotUpdateManifest {..}): the fields in the      *)
(* struct's order, each under its serialize name.                        *)
HotUpdateManifest(modified_chunks, removed_chunks) ==
    <<<<"c", modified_chunks>>, <<"r", removed_chunks>>>>

(* std::fs::write(output.path.join(filename), content) *)
FsWrite(d, name, content) ==
    [f \in DOMAIN d \cup {name} |-> IF f = name THEN content ELSE d[f]]

write_to_dist(d, name, content) == FsWrite(d, name, content)

(* One step of the running call, with the locks it holds at that moment. *)
Event(op, file) ==
    [op |-> op, file |-> file, cg |-> cg_readers, assets |-> assets_locked,
     fresh |-> file \notin DOMAIN dist]

NoFile == << >>

(* The orders in which a HashSet's elements are iterated. *)
Orders(S) ==
    {s \in [1..Cardinality(S) -> S] : \A i, j \in 1..Cardinality(S) : s[i] = s[j] => i = j}

(* every chunk, the filter left out *)
ModifiedChunks_NoFilter(chunks, modified) == [i \in 1..Len(chunks) |-> filename(chunks[i])]

(* chunk_graph.get_chunks().iter().filter(..).map(|c| c.filename()).collect() *)
RECURSIVE ModifiedChunks(_, _)
ModifiedChunks(chunks, modified) ==
    IF chunks = << >> THEN << >>
    ELSE (IF \E m_id \in modified : has_module(Head(chunks), m_id)
          THEN <<filename(Head(chunks))>> ELSE << >>)
         \o ModifiedChunks(Tail(chunks), modified)

(* the difference taken the wrong way round *)
RemovedChunks_Swapped(last_chunk_names, current_chunks) == current_chunks \ last_chunk_names

(* the previous names, nothing taken away *)
RemovedChunks_NoDifference(last_chunk_names, current_chunks) == last_chunk_names

(* last_chunk_names.difference(&current_chunks) *)
RemovedChunks(last_chunk_names, current_chunks) == last_chunk_names \ current_chunks

NoFrame == [op |-> "none"]

NoResult == [kind |-> "none"]
Ok(v) == [kind |-> "Ok", value |-> v]
Err(e) == [kind |-> "Err", value |-> e]

(* The module graphs of a watch session: the entry and the shared module  *)
(* are edited, the async modules come and go.                             *)
HotGraphs ==
    {g \in [ModuleIds -> 0..2] :
        /\ g["e"] \in 1..2 /\ g["s"] \in 1..2
        /\ g["a"] \in 0..1 /\ g["b"] \in 0..1
        /\ g["c"] = 0 /\ g["n"] = 0}

DevConfig == [mode |-> "Development", minify |-> FALSE, devtool |-> "None"]

(* ---------------- the watch loop (the caller) ---------------- *)

(* The hashes under which the call that just ended wrote a file. *)
KeyedBy(l, fr) ==
    IF \E i \in 1..Len(l) : l[i].op = "write" THEN {fr.last_full_hash} ELSE {}

(* The module graphs one save leads to: at most two modules change. *)
Edits(mg) ==
    {g \in HotGraphs : Cardinality({m \in ModuleIds : g[m] # mg[m]}) <= 2}

(* An edit: update() changes the module graph and reports the modules     *)
(* whose content changed; the loop then calls generate_hot_update_chunks  *)
(* with them and with the hash it holds.                                  *)
Update ==
    /\ driver = "watch"
    /\ pc = "idle"
    /\ rebuilds < MaxRebuilds
    /\ \E g \in Edits(module_graph) :
        /\ module_graph' = g
        /\ frame' = [op |-> "hot",
                     updated_modules |->
                        [modified |-> {m \in ModuleIds :
                            module_graph[m] > 0 /\ g[m] > 0 /\ g[m] # module_graph[m]}],
                     last_full_hash |-> stored_hash,
                     last_chunk_names |-> {},
                     current_full_hash |-> 0,
                     current_chunks |-> {},
                     modified_chunks |-> << >>,
                     removed_chunks |-> << >>,
                     i |-> 1,
                     cg0 |-> chunk_graph,
                     mg0 |-> module_graph,
                     lost |-> IF frame.op = "hot"
                              THEN (frame.lost \cup
                                      (IF result = Err("transform_all")
                                       THEN chunk_names(frame.cg0) ELSE {}))
                                   \ chunk_names(chunk_graph)
                              ELSE {},
                     dist0 |-> dist,
                     dir0 |-> dir_exists,
                     prior_ok |-> frame.op = "none"
                                  \/ (frame.prior_ok /\ result.kind = "Ok")]
    /\ keyed' = keyed \cup (IF frame.op = "hot" THEN KeyedBy(log, frame) ELSE {})
    /\ rebuilds' = rebuilds + 1
    /\ log' = << >>
    /\ result' = NoResult
    /\ pc' = "hot_snapshot"
    /\ UNCHANGED <<driver, config, chunk_graph, assets_info, src_files, dir_exists, dist,
                   cg_readers, assets_locked, stored_hash>>

(* ---------------- generate_hot_update_chunks ---------------- *)

(* lines 225-228: the names before regrouping, read under a guard that    *)
(* the block drops.                                                       *)
HotSnapshot ==
    /\ pc = "hot_snapshot"
    /\ frame' = [frame EXCEPT !.last_chunk_names = chunk_names(chunk_graph)]
    /\ log' = Append(log, Event("snapshot", NoFile))
    /\ pc' = "hot_group_chunk"
    /\ UNCHANGED <<driver, config, module_graph, chunk_graph, assets_info, src_files,
                   dir_exists, dist, cg_readers, assets_locked, result,
                   stored_hash, keyed, rebuilds>>

(* line 235 *)
HotGroupChunk ==
    /\ pc = "hot_group_chunk"
    /\ chunk_graph' = GroupChunk(module_graph)
    /\ log' = Append(log, Event("group_chunk", NoFile))
    /\ pc' = "hot_transform_all"
    /\ UNCHANGED <<driver, config, module_graph, assets_info, src_files, dir_exists, dist,
                   frame, cg_readers, assets_locked, result, stored_hash, keyed,
                   rebuilds>>

(* the chunk graph of before the call put back when transform_all fails *)
HotTransformAll_RestoresGraph ==
    /\ pc = "hot_transform_all"
    /\ log' = Append(log, Event("transform_all", NoFile))
    /\ \/ /\ pc' = "hot_full_hash"
          /\ UNCHANGED <<result, chunk_graph>>
       \/ /\ pc' = "idle"
          /\ result' = Err("transform_all")
          /\ chunk_graph' = frame.cg0
    /\ UNCHANGED <<driver, config, module_graph, assets_info, src_files,
                   dir_exists, dist, frame, cg_readers, assets_locked,
                   stored_hash, keyed, rebuilds>>

(* line 242: self.transform_all()? *)
HotTransformAll ==
    /\ pc = "hot_transform_all"
    /\ log' = Append(log, Event("transform_all", NoFile))
    /\ \/ /\ pc' = "hot_full_hash"
          /\ UNCHANGED result
       \/ /\ pc' = "idle"
          /\ result' = Err("transform_all")
    /\ UNCHANGED <<driver, config, module_graph, chunk_graph, assets_info, src_files,
                   dir_exists, dist, frame, cg_readers, assets_locked,
                   stored_hash, keyed, rebuilds>>

(* the no-op return left out *)
HotFullHash_NoShortCircuit ==
    /\ pc = "hot_full_hash"
    /\ frame' = [frame EXCEPT !.current_full_hash = full_hash(module_graph)]
    /\ log' = Append(log, Event("full_hash", NoFile))
    /\ pc' = "hot_ensure_dir"
    /\ UNCHANGED <<driver, config, module_graph, chunk_graph, assets_info, src_files,
                   dir_exists, dist, cg_readers, assets_locked, keyed, rebuilds,
                   result, stored_hash>>

(* lines 245-260: the fingerprint and the no-op return *)
HotFullHash ==
    /\ pc = "hot_full_hash"
    /\ LET current_full_hash == full_hash(module_graph) IN
        /\ frame' = [frame EXCEPT !.current_full_hash = current_full_hash]
        /\ log' = Append(log, Event("full_hash", NoFile))
        /\ IF current_full_hash = frame.last_full_hash
           THEN /\ result' = Ok(current_full_hash)
                /\ stored_hash' = current_full_hash
                /\ pc' = "idle"
           ELSE /\ pc' = "hot_ensure_dir"
                /\ UNCHANGED <<result, stored_hash>>
    /\ UNCHANGED <<driver, config, module_graph, chunk_graph, assets_info, src_files,
                   dir_exists, dist, cg_readers, assets_locked, keyed, rebuilds>>

(* lines 262-266 *)
HotEnsureDir ==
    /\ pc = "hot_ensure_dir"
    /\ dir_exists' = TRUE
    /\ log' = IF dir_exists THEN log ELSE Append(log, Event("create_dir_all", NoFile))
    /\ pc' = "hot_diff"
    /\ UNCHANGED <<driver, config, module_graph, chunk_graph, assets_info, src_files, dist,
                   frame, cg_readers, assets_locked, result, stored_hash, keyed,
                   rebuilds>>

(* lines 268-286: the current names and the modified chunks, read under a *)
(* guard that the block drops                                             *)
HotDiff ==
    /\ pc = "hot_diff"
    /\ frame' = [frame EXCEPT
            !.current_chunks = chunk_names(chunk_graph),
            !.modified_chunks =
                ModifiedChunks(get_chunks(chunk_graph), frame.updated_modules.modified)]
    /\ log' = Append(log, Event("query", NoFile))
    /\ pc' = "hot_removed"
    /\ UNCHANGED <<driver, config, module_graph, chunk_graph, assets_info, src_files,
                   dir_exists, dist, cg_readers, assets_locked, result,
                   stored_hash, keyed, rebuilds>>

(* lines 288-291: the difference of two hash sets, collected in the       *)
(* set's iteration order                                                  *)
HotRemoved ==
    /\ pc = "hot_removed"
    /\ \E order \in Orders(RemovedChunks(frame.last_chunk_names, frame.current_chunks)) :
          frame' = [frame EXCEPT !.removed_chunks = order]
    /\ pc' = "hot_lock"
    /\ UNCHANGED <<driver, config, module_graph, chunk_graph, assets_info, src_files,
                   dir_exists, dist, cg_readers, assets_locked, result,
                   stored_hash, keyed, rebuilds, log>>

(* line 293: let cg = self.context.chunk_graph.read().unwrap(); the guard *)
(* lives to the end of the function                                       *)
HotLock ==
    /\ pc = "hot_lock"
    /\ cg_readers' = cg_readers + 1
    /\ pc' = "hot_patch"
    /\ UNCHANGED <<driver, config, module_graph, chunk_graph, assets_info, src_files,
                   dir_exists, dist, frame, assets_locked, result, stored_hash,
                   keyed, rebuilds, log>>

(* the transform done inside the loop over the chunks *)
HmrEvents_TransformInLoop(chunk_name, file) ==
    <<Event("transform_all", NoFile), Event("generate_hmr_chunk", chunk_name),
      Event("write", file)>>

(* lines 296-300: the steps of one turn that renders and writes a patch *)
HmrEvents(chunk_name, file) ==
    <<Event("generate_hmr_chunk", chunk_name), Event("write", file)>>

(* the chunk looked up under its name without the extension: no chunk is  *)
(* found and the turn does nothing                                        *)
HotPatch_LookupByStem ==
    /\ pc = "hot_patch"
    /\ frame.i <= Len(frame.modified_chunks)
    /\ LET chunk_name == frame.modified_chunks[frame.i]
           chunk == get_chunk_by_name(chunk_graph, <<chunk_name[1]>>)
           file == to_hot_update_chunk_name(chunk_name, frame.last_full_hash)
       IN IF chunk = None
          THEN /\ frame' = [frame EXCEPT !.i = @ + 1]
               /\ UNCHANGED <<dist, log, pc, result, cg_readers>>
          ELSE /\ dist' = write_to_dist(dist, file,
                               generate_hmr_chunk(module_graph, chunk,
                                   frame.updated_modules.modified,
                                   frame.current_full_hash))
               /\ log' = log \o HmrEvents(chunk_name, file)
               /\ frame' = [frame EXCEPT !.i = @ + 1]
               /\ UNCHANGED <<pc, result, cg_readers>>
    /\ UNCHANGED <<driver, config, module_graph, chunk_graph, assets_info, src_files,
                   dir_exists, assets_locked, stored_hash, keyed, rebuilds>>

(* lines 294-302: one turn of the loop over modified_chunks *)
HotPatch ==
    /\ pc = "hot_patch"
    /\ frame.i <= Len(frame.modified_chunks)
    /\ LET chunk_name == frame.modified_chunks[frame.i]
           chunk == get_chunk_by_name(chunk_graph, chunk_name)
           file == to_hot_update_chunk_name(chunk_name, frame.last_full_hash)
       IN IF chunk = None
          THEN /\ frame' = [frame EXCEPT !.i = @ + 1]
               /\ UNCHANGED <<dist, log, pc, result, cg_readers>>
          ELSE \/ /\ dist' = write_to_dist(dist, file,
                                  generate_hmr_chunk(module_graph, chunk,
                                      frame.updated_modules.modified,
                                      frame.current_full_hash))
                  /\ log' = log \o HmrEvents(chunk_name, file)
                  /\ frame' = [frame EXCEPT !.i = @ + 1]
                  /\ UNCHANGED <<pc, result, cg_readers>>
               \/ /\ log' = Append(log, Event("generate_hmr_chunk", chunk_name))
                  /\ result' = Err("generate_hmr_chunk")
                  /\ cg_readers' = cg_readers - 1
                  /\ pc' = "idle"
                  /\ UNCHANGED <<dist, frame>>
    /\ UNCHANGED <<driver, config, module_graph, chunk_graph, assets_info, src_files,
                   dir_exists, assets_locked, stored_hash, keyed, rebuilds>>

(* no manifest when there is nothing to announce *)
HotManifest_SkipsEmpty ==
    /\ pc = "hot_patch"
    /\ frame.i > Len(frame.modified_chunks)
    /\ IF frame.modified_chunks = << >> /\ frame.removed_chunks = << >>
       THEN UNCHANGED <<dist, log>>
       ELSE /\ dist' = write_to_dist(dist, ManifestName(frame.last_full_hash),
                            HotUpdateManifest(frame.modified_chunks, frame.removed_chunks))
            /\ log' = Append(log, Event("write", ManifestName(frame.last_full_hash)))
    /\ pc' = "hot_return"
    /\ UNCHANGED <<driver, config, module_graph, chunk_graph, assets_info, src_files,
                   dir_exists, frame, cg_readers, assets_locked, result,
                   stored_hash, keyed, rebuilds>>

(* the manifest named by the new hash *)
HotManifest_NewHash ==
    /\ pc = "hot_patch"
    /\ frame.i > Len(frame.modified_chunks)
    /\ dist' = write_to_dist(dist, ManifestName(frame.current_full_hash),
                    HotUpdateManifest(frame.modified_chunks, frame.removed_chunks))
    /\ log' = Append(log, Event("write", ManifestName(frame.current_full_hash)))
    /\ pc' = "hot_return"
    /\ UNCHANGED <<driver, config, module_graph, chunk_graph, assets_info, src_files,
                   dir_exists, frame, cg_readers, assets_locked, result,
                   stored_hash, keyed, rebuilds>>

(* lines 304-311 *)
HotManifest ==
    /\ pc = "hot_patch"
    /\ frame.i > Len(frame.modified_chunks)
    /\ dist' = write_to_dist(dist, ManifestName(frame.last_full_hash),
                    HotUpdateManifest(frame.modified_chunks, frame.removed_chunks))
    /\ log' = Append(log, Event("write", ManifestName(frame.last_full_hash)))
    /\ pc' = "hot_return"
    /\ UNCHANGED <<driver, config, module_graph, chunk_graph, assets_info, src_files,
                   dir_exists, frame, cg_readers, assets_locked, result,
                   stored_hash, keyed, rebuilds>>

(* the hash the caller passed in returned in place of the new one *)
HotReturn_ReturnsLast ==
    /\ pc = "hot_return"
    /\ result' = Ok(frame.last_full_hash)
    /\ stored_hash' = frame.last_full_hash
    /\ cg_readers' = cg_readers - 1
    /\ pc' = "idle"
    /\ UNCHANGED <<driver, config, module_graph, chunk_graph, assets_info, src_files,
                   dir_exists, dist, frame, assets_locked, keyed, rebuilds, log>>

(* lines 324-325: Ok(current_full_hash); cg is dropped; the caller keeps  *)
(* the returned hash                                                      *)
HotReturn ==
    /\ pc = "hot_return"
    /\ result' = Ok(frame.current_full_hash)
    /\ stored_hash' = frame.current_full_hash
    /\ cg_readers' = cg_readers - 1
    /\ pc' = "idle"
    /\ UNCHANGED <<driver, config, module_graph, chunk_graph, assets_info, src_files,
                   dir_exists, dist, frame, assets_locked, keyed, rebuilds, log>>

Init ==
    /\ driver = "watch"
    /\ config = DevConfig
    /\ module_graph = [m \in ModuleIds |-> IF m \in {"e", "s", "a", "b"} THEN 1 ELSE 0]
    /\ chunk_graph = GroupChunk(module_graph)
    /\ assets_info = << >>
    /\ src_files = {}
    /\ dir_exists \in BOOLEAN
    /\ dist = << >>
    /\ pc = "idle"
    /\ frame = NoFrame
    /\ cg_readers = 0
    /\ assets_locked = FALSE
    /\ result = NoResult
    /\ stored_hash = full_hash(module_graph)
    /\ keyed = {}
    /\ rebuilds = 0
    /\ log = << >>

Next ==
    \/ Update
    \/ HotSnapshot
    \/ HotGroupChunk
    \/ HotTransformAll
    \/ HotFullHash
    \/ HotEnsureDir
    \/ HotDiff
    \/ HotRemoved
    \/ HotLock
    \/ HotPatch
    \/ HotManifest
    \/ HotReturn

Spec == Init /\ [][Next]_vars

(* ---------------- generate ---------------- *)

(* generate_chunks_ast: one OutputAst per chunk of the graph *)
generate_chunks_ast(cg, mg) ==
    [i \in 1..Len(cg) |->
        [path |-> filename(cg[i]),
         ast |-> [kind |-> cg[i].kind, minified |-> FALSE,
                  modules |-> {<<m, mg[m]>> : m \in cg[i].modules}]]]

(* minify_js / swc_css_minifier::minify: the AST, minified in place *)
Minified(ast) == [ast EXCEPT !.minified = TRUE]

(* js_ast_to_code / css_ast_to_code: the code of an AST *)
AstToCode(ast) == [code |-> ast.modules, kind |-> ast.kind, minified |-> ast.minified]

(* the source map js_ast_to_code returns with the code *)
SourceMapOf(file) == [sourcemap |-> file.path]

(* format!("{}.map", output.display()) *)
MapName(path) == path \o <<"map">>

(* the mode not looked at *)
MinifyTask_NoModeGate(cfg, file) ==
    IF file.ast.kind \in {"Script", "Css"}
    THEN [file EXCEPT !.ast = Minified(file.ast)]
    ELSE file

(* lines 59-69: what one minify task does to its chunk's AST *)
MinifyTask(cfg, file) ==
    IF cfg.mode = "Production" /\ file.ast.kind \in {"Script", "Css"}
    THEN [file EXCEPT !.ast = Minified(file.ast)]
    ELSE file

(* lines 79-99: the files one codegen task writes for its chunk *)
WriteTask(cfg, d, file) ==
    IF file.ast.kind = "Script"
    THEN LET d1 == FsWrite(d, file.path, AstToCode(file.ast))
         IN  IF cfg.devtool = "SourceMap"
             THEN FsWrite(d1, MapName(file.path), SourceMapOf(file))
             ELSE d1
    ELSE IF file.ast.kind = "Css"
    THEN FsWrite(d, file.path, AstToCode(file.ast))
    ELSE d

AllTodo(n) == [i \in 1..n |-> "todo"]

(* The build command calls generate. *)
CallGenerate ==
    /\ driver = "build"
    /\ pc = "idle"
    /\ result.kind # "panic"
    /\ rebuilds < MaxBuilds
    /\ frame' = [op |-> "generate", chunk_asts |-> << >>, minify_task |-> << >>,
                 write_task |-> << >>, i |-> 1, cg0 |-> chunk_graph, dist0 |-> dist]
    /\ rebuilds' = rebuilds + 1
    /\ log' = << >>
    /\ result' = NoResult
    /\ pc' = "gen_tree_shaking"
    /\ UNCHANGED <<driver, config, module_graph, chunk_graph, assets_info, src_files,
                   dir_exists, dist, cg_readers, assets_locked, stored_hash, keyed>>

(* tree_shaking run in every mode *)
GenTreeShaking_Always ==
    /\ pc = "gen_tree_shaking"
    /\ log' = Append(log, Event("tree_shaking", NoFile))
    /\ pc' = "gen_group_chunk"
    /\ UNCHANGED <<driver, config, module_graph, chunk_graph, assets_info, src_files,
                   dir_exists, dist, frame, cg_readers, assets_locked, result,
                   stored_hash, keyed, rebuilds>>

(* lines 23-26 *)
GenTreeShaking ==
    /\ pc = "gen_tree_shaking"
    /\ log' = IF config.mode = "Production"
              THEN Append(log, Event("tree_shaking", NoFile)) ELSE log
    /\ pc' = "gen_group_chunk"
    /\ UNCHANGED <<driver, config, module_graph, chunk_graph, assets_info, src_files,
                   dir_exists, dist, frame, cg_readers, assets_locked, result,
                   stored_hash, keyed, rebuilds>>

(* line 29 *)
GenGroupChunk ==
    /\ pc = "gen_group_chunk"
    /\ chunk_graph' = GroupChunk(module_graph)
    /\ log' = Append(log, Event("group_chunk", NoFile))
    /\ pc' = "gen_transform_all"
    /\ UNCHANGED <<driver, config, module_graph, assets_info, src_files, dir_exists, dist,
                   frame, cg_readers, assets_locked, result, stored_hash, keyed,
                   rebuilds>>

(* line 36: self.transform_all()? *)
GenTransformAll ==
    /\ pc = "gen_transform_all"
    /\ log' = Append(log, Event("transform_all", NoFile))
    /\ \/ /\ pc' = "gen_ensure_dir"
          /\ UNCHANGED result
       \/ /\ pc' = "idle"
          /\ result' = Err("transform_all")
    /\ UNCHANGED <<driver, config, module_graph, chunk_graph, assets_info, src_files,
                   dir_exists, dist, frame, cg_readers, assets_locked,
                   stored_hash, keyed, rebuilds>>

(* lines 40-43 *)
GenEnsureDir ==
    /\ pc = "gen_ensure_dir"
    /\ dir_exists' = TRUE
    /\ log' = IF dir_exists THEN log ELSE Append(log, Event("create_dir_all", NoFile))
    /\ pc' = "gen_chunks_ast"
    /\ UNCHANGED <<driver, config, module_graph, chunk_graph, assets_info, src_files, dist,
                   frame, cg_readers, assets_locked, result, stored_hash, keyed,
                   rebuilds>>

(* line 49: self.generate_chunks_ast()? *)
GenChunksAst ==
    /\ pc = "gen_chunks_ast"
    /\ log' = Append(log, Event("generate_chunks_ast", NoFile))
    /\ \/ /\ frame' = [frame EXCEPT
                  !.chunk_asts = generate_chunks_ast(chunk_graph, module_graph),
                  !.minify_task = AllTodo(Len(chunk_graph)),
                  !.write_task = AllTodo(Len(chunk_graph))]
          /\ pc' = "gen_minify"
          /\ UNCHANGED result
       \/ /\ pc' = "idle"
          /\ result' = Err("generate_chunks_ast")
          /\ UNCHANGED frame
    /\ UNCHANGED <<driver, config, module_graph, chunk_graph, assets_info, src_files,
                   dir_exists, dist, cg_readers, assets_locked, stored_hash,
                   keyed, rebuilds>>

(* lines 58-70: the minify task of one chunk, on a worker of the pool;    *)
(* minify_js may fail                                                     *)
GenMinifyTask ==
    /\ pc = "gen_minify"
    /\ config.minify
    /\ \E i \in 1..Len(frame.chunk_asts) :
        /\ frame.minify_task[i] = "todo"
        /\ LET file == frame.chunk_asts[i] IN
           \/ /\ frame' = [frame EXCEPT !.chunk_asts[i] = MinifyTask(config, file),
                                        !.minify_task[i] = "done"]
              /\ log' = IF MinifyTask(config, file) # file
                        THEN Append(log, Event("minify", file.path)) ELSE log
           \/ /\ config.mode = "Production"
              /\ file.ast.kind = "Script"
              /\ frame' = [frame EXCEPT !.minify_task[i] = "err"]
              /\ log' = Append(log, Event("minify_failed", file.path))
    /\ UNCHANGED <<driver, config, module_graph, chunk_graph, assets_info, src_files,
                   dir_exists, dist, pc, cg_readers, assets_locked, result,
                   stored_hash, keyed, rebuilds>>

Tasks(status, st) == {i \in 1..Len(status) : status[i] = st}

(* no barrier after the minify fan-out: the write stage may start while   *)
(* minify tasks are still to run                                          *)
GenMinifyJoin_NoBarrier ==
    /\ pc = "gen_minify"
    /\ pc' = "gen_write"
    /\ UNCHANGED <<driver, config, module_graph, chunk_graph, assets_info, src_files,
                   dir_exists, dist, frame, cg_readers, assets_locked, result,
                   stored_hash, keyed, rebuilds, log>>

(* lines 55-72: the end of the minify stage: skipped when minify is off;  *)
(* try_for_each returns once every task is done, or an error once a task  *)
(* failed (tasks not yet started are then dropped)                        *)
GenMinifyJoin ==
    /\ pc = "gen_minify"
    /\ IF ~config.minify \/ Tasks(frame.minify_task, "done") = DOMAIN frame.minify_task
       THEN /\ pc' = "gen_write"
            /\ UNCHANGED result
       ELSE /\ Tasks(frame.minify_task, "err") # {}
            /\ pc' = "idle"
            /\ result' = Err("minify_js")
    /\ UNCHANGED <<driver, config, module_graph, chunk_graph, assets_info, src_files,
                   dir_exists, dist, frame, cg_readers, assets_locked,
                   stored_hash, keyed, rebuilds, log>>

(* lines 78-86 and 92-100: the codegen task of one chunk, on a worker of  *)
(* the pool, up to the write of the code; js_ast_to_code may fail, before *)
(* anything is written                                                    *)
GenWriteTask ==
    /\ pc = "gen_write"
    /\ \E i \in 1..Len(frame.chunk_asts) :
        /\ frame.write_task[i] = "todo"
        /\ LET file == frame.chunk_asts[i] IN
           \/ /\ file.ast.kind \in {"Script", "Css"}
              /\ dist' = FsWrite(dist, file.path, AstToCode(file.ast))
              /\ log' = Append(log, Event("write", file.path))
              /\ frame' = [frame EXCEPT !.write_task[i] =
                              IF file.ast.kind = "Script" /\ config.devtool = "SourceMap"
                              THEN "map" ELSE "done"]
           \/ /\ file.ast.kind \notin {"Script", "Css"}
              /\ frame' = [frame EXCEPT !.write_task[i] = "done"]
              /\ UNCHANGED <<dist, log>>
           \/ /\ file.ast.kind = "Script"
              /\ frame' = [frame EXCEPT !.write_task[i] = "err"]
              /\ log' = Append(log, Event("codegen_failed", file.path))
              /\ UNCHANGED dist
    /\ UNCHANGED <<driver, config, module_graph, chunk_graph, assets_info, src_files,
                   dir_exists, pc, cg_readers, assets_locked, result,
                   stored_hash, keyed, rebuilds>>

(* lines 87-89: the same task writes the source map next to the code;     *)
(* tasks of other chunks may run in between                               *)
GenWriteMap ==
    /\ pc = "gen_write"
    /\ \E i \in 1..Len(frame.chunk_asts) :
        /\ frame.write_task[i] = "map"
        /\ LET file == frame.chunk_asts[i] IN
           /\ dist' = FsWrite(dist, MapName(file.path), SourceMapOf(file))
           /\ log' = Append(log, Event("write", MapName(file.path)))
           /\ frame' = [frame EXCEPT !.write_task[i] = "done"]
    /\ UNCHANGED <<driver, config, module_graph, chunk_graph, assets_info, src_files,
                   dir_exists, pc, cg_readers, assets_locked, result,
                   stored_hash, keyed, rebuilds>>

(* the result of the write fan-out dropped: the call goes on once no task *)
(* is left to run                                                         *)
GenWriteJoin_IgnoresErr ==
    /\ pc = "gen_write"
    /\ Tasks(frame.write_task, "todo") \cup Tasks(frame.write_task, "map") = {}
    /\ pc' = "gen_assets"
    /\ assets_locked' = TRUE
    /\ UNCHANGED <<driver, config, module_graph, chunk_graph, assets_info, src_files,
                   dir_exists, dist, frame, cg_readers, stored_hash, keyed,
                   rebuilds, log, result>>

(* line 101: the end of the write stage: try_for_each returns once every  *)
(* task is done, or an error once a task failed and no task is under way  *)
(* (tasks not yet started are then dropped); then line 107: the asset map *)
(* is locked, and the guard lives to the end of the function              *)
GenWriteJoin ==
    /\ pc = "gen_write"
    /\ IF Tasks(frame.write_task, "done") = DOMAIN frame.write_task
       THEN /\ pc' = "gen_assets"
            /\ assets_locked' = TRUE
            /\ UNCHANGED result
       ELSE /\ Tasks(frame.write_task, "err") # {}
            /\ Tasks(frame.write_task, "map") = {}
            /\ pc' = "idle"
            /\ result' = Err("js_ast_to_code")
            /\ UNCHANGED assets_locked
    /\ UNCHANGED <<driver, config, module_graph, chunk_graph, assets_info, src_files,
                   dir_exists, dist, frame, cg_readers, stored_hash, keyed,
                   rebuilds, log>>

(* fs::copy(asset_path, asset_output_path): the output holds the source *)
FsCopy(d, from, to) == FsWrite(d, to, [asset |-> from])

(* lines 108-116: one turn of the loop over assets_info; a missing source *)
(* panics, and unwinding drops the guard                                  *)
GenAsset ==
    /\ pc = "gen_assets"
    /\ frame.i <= Len(assets_info)
    /\ LET k == assets_info[frame.i][1]
           v == assets_info[frame.i][2]
       IN IF k \in src_files
          THEN /\ dist' = FsCopy(dist, k, v)
               /\ log' = Append(log, Event("copy_asset", v))
               /\ frame' = [frame EXCEPT !.i = @ + 1]
               /\ UNCHANGED <<pc, result, assets_locked>>
          ELSE /\ result' = [kind |-> "panic", value |-> "asset not found"]
               /\ assets_locked' = FALSE
               /\ pc' = "idle"
               /\ UNCHANGED <<dist, log, frame>>
    /\ UNCHANGED <<driver, config, module_graph, chunk_graph, assets_info, src_files,
                   dir_exists, cg_readers, stored_hash, keyed, rebuilds>>

(* lines 122 and 141: self.copy()?, then Ok(()); the guard is dropped *)
GenCopy ==
    /\ pc = "gen_assets"
    /\ frame.i > Len(assets_info)
    /\ log' = Append(log, Event("copy", NoFile))
    /\ \/ result' = Ok("unit")
       \/ result' = Err("copy")
    /\ assets_locked' = FALSE
    /\ pc' = "idle"
    /\ UNCHANGED <<driver, config, module_graph, chunk_graph, assets_info, src_files,
                   dir_exists, dist, frame, cg_readers, stored_hash, keyed,
                   rebuilds>>

(* ---------------- emit_dev_chunks ---------------- *)

(* the stylesheet arm of generate kept: stylesheet chunks written too *)
DevWriteTask_WritesCss(cfg, d, file) ==
    IF file.ast.kind = "Script"
    THEN LET d1 == FsWrite(d, file.path, AstToCode(file.ast))
         IN  IF cfg.devtool = "SourceMap"
             THEN FsWrite(d1, MapName(file.path), SourceMapOf(file))
             ELSE d1
    ELSE IF file.ast.kind = "Css"
    THEN FsWrite(d, file.path, AstToCode(file.ast))
    ELSE d

(* lines 159-175: the files one task writes for its chunk: script chunks  *)
(* only                                                                   *)
DevWriteTask(cfg, d, file) ==
    IF file.ast.kind = "Script"
    THEN LET d1 == FsWrite(d, file.path, AstToCode(file.ast))
         IN  IF cfg.devtool = "SourceMap"
             THEN FsWrite(d1, MapName(file.path), SourceMapOf(file))
             ELSE d1
    ELSE d

DevWriteEvents(cfg, file) ==
    IF file.ast.kind = "Script"
    THEN <<Event("write", file.path)>>
         \o (IF cfg.devtool = "SourceMap"
             THEN <<Event("write", MapName(file.path))>> ELSE << >>)
    ELSE << >>

(* The dev server calls emit_dev_chunks with the chunk ASTs it rendered   *)
(* from the current chunk graph.                                          *)
CallEmitDevChunks ==
    /\ driver = "build"
    /\ pc = "idle"
    /\ result.kind # "panic"
    /\ rebuilds < MaxBuilds
    /\ chunk_graph # << >>
    /\ frame' = [op |-> "emit_dev_chunks",
                 chunk_asts |-> generate_chunks_ast(chunk_graph, module_graph),
                 minify_task |-> << >>,
                 write_task |-> AllTodo(Len(chunk_graph)), i |-> 1,
                 cg0 |-> chunk_graph, dist0 |-> dist]
    /\ rebuilds' = rebuilds + 1
    /\ log' = << >>
    /\ result' = NoResult
    /\ pc' = "dev_ensure_dir"
    /\ UNCHANGED <<driver, config, module_graph, chunk_graph, assets_info, src_files,
                   dir_exists, dist, cg_readers, assets_locked, stored_hash, keyed>>

(* lines 150-153 *)
DevEnsureDir ==
    /\ pc = "dev_ensure_dir"
    /\ dir_exists' = TRUE
    /\ log' = IF dir_exists THEN log ELSE Append(log, Event("create_dir_all", NoFile))
    /\ pc' = "dev_write"
    /\ UNCHANGED <<driver, config, module_graph, chunk_graph, assets_info, src_files, dist,
                   frame, cg_readers, assets_locked, result, stored_hash, keyed,
                   rebuilds>>

(* lines 158-176: the codegen+write task of one chunk *)
DevWriteTaskStep ==
    /\ pc = "dev_write"
    /\ \E i \in 1..Len(frame.chunk_asts) :
        /\ frame.write_task[i] = "todo"
        /\ LET file == frame.chunk_asts[i] IN
           \/ /\ dist' = DevWriteTask(config, dist, file)
              /\ log' = log \o DevWriteEvents(config, file)
              /\ frame' = [frame EXCEPT !.write_task[i] = "done"]
           \/ /\ file.ast.kind = "Script"
              /\ frame' = [frame EXCEPT !.write_task[i] = "err"]
              /\ log' = Append(log, Event("codegen_failed", file.path))
              /\ UNCHANGED dist
    /\ UNCHANGED <<driver, config, module_graph, chunk_graph, assets_info, src_files,
                   dir_exists, pc, cg_readers, assets_locked, result,
                   stored_hash, keyed, rebuilds>>

(* line 177: the end of the write stage; then line 183: the asset map is  *)
(* locked, and the guard lives to the end of the function                 *)
DevWriteJoin ==
    /\ pc = "dev_write"
    /\ IF Tasks(frame.write_task, "done") = DOMAIN frame.write_task
       THEN /\ pc' = "dev_assets"
            /\ assets_locked' = TRUE
            /\ UNCHANGED result
       ELSE /\ Tasks(frame.write_task, "err") # {}
            /\ pc' = "idle"
            /\ result' = Err("js_ast_to_code")
            /\ UNCHANGED assets_locked
    /\ UNCHANGED <<driver, config, module_graph, chunk_graph, assets_info, src_files,
                   dir_exists, dist, frame, cg_readers, stored_hash, keyed,
                   rebuilds, log>>

(* lines 184-192 *)
DevAsset ==
    /\ pc = "dev_assets"
    /\ frame.i <= Len(assets_info)
    /\ LET k == assets_info[frame.i][1]
           v == assets_info[frame.i][2]
       IN IF k \in src_files
          THEN /\ dist' = FsCopy(dist, k, v)
               /\ log' = Append(log, Event("copy_asset", v))
               /\ frame' = [frame EXCEPT !.i = @ + 1]
               /\ UNCHANGED <<pc, result, assets_locked>>
          ELSE /\ result' = [kind |-> "panic", value |-> "asset not found"]
               /\ assets_locked' = FALSE
               /\ pc' = "idle"
               /\ UNCHANGED <<dist, log, frame>>
    /\ UNCHANGED <<driver, config, module_graph, chunk_graph, assets_info, src_files,
                   dir_exists, cg_readers, stored_hash, keyed, rebuilds>>

(* lines 198 and 214 *)
DevCopy ==
    /\ pc = "dev_assets"
    /\ frame.i > Len(assets_info)
    /\ log' = Append(log, Event("copy", NoFile))
    /\ \/ result' = Ok("unit")
       \/ result' = Err("copy")
    /\ assets_locked' = FALSE
    /\ pc' = "idle"
    /\ UNCHANGED <<driver, config, module_graph, chunk_graph, assets_info, src_files,
                   dir_exists, dist, frame, cg_readers, stored_hash, keyed,
                   rebuilds>>

Modes == {"Development", "Production"}
Devtools == {"None", "SourceMap"}

(* The declared assets: source path under the root, path in the output. *)
Assets == {<<"logo", <<"logo", "png">>>>, <<"font", <<"font", "woff">>>>}

(* The module graphs of the full builds: two script chunks that share a   *)
(* module; a script chunk, a stylesheet chunk and a chunk of another kind *)
GenGraphs ==
    {[m \in ModuleIds |-> IF m \in {"e", "s", "a"} THEN 1 ELSE 0],
     [m \in ModuleIds |-> IF m \in {"e", "s", "c", "n"} THEN 1 ELSE 0]}

(* A full build starts from a fresh compiler: no chunk graph yet. *)
InitGen ==
    /\ driver = "build"
    /\ config \in [mode : Modes, minify : BOOLEAN, devtool : Devtools]
    /\ module_graph \in GenGraphs
    /\ chunk_graph = << >>
    /\ \E A \in SUBSET Assets : assets_info \in Orders(A)
    /\ src_files \in SUBSET {assets_info[i][1] : i \in 1..Len(assets_info)}
    /\ dir_exists \in BOOLEAN
    /\ dist = << >>
    /\ pc = "idle"
    /\ frame = NoFrame
    /\ cg_readers = 0
    /\ assets_locked = FALSE
    /\ result = NoResult
    /\ stored_hash = 0
    /\ keyed = {}
    /\ rebuilds = 0
    /\ log = << >>

NextGen ==
    \/ CallGenerate
    \/ GenTreeShaking
    \/ GenGroupChunk
    \/ GenTransformAll
    \/ GenEnsureDir
    \/ GenChunksAst
    \/ GenMinifyTask
    \/ GenMinifyJoin
    \/ GenWriteTask
    \/ GenWriteMap
    \/ GenWriteJoin
    \/ GenAsset
    \/ GenCopy
    \/ CallEmitDevChunks
    \/ DevEnsureDir
    \/ DevWriteTaskStep
    \/ DevWriteJoin
    \/ DevAsset
    \/ DevCopy

SpecGen == InitGen /\ [][NextGen]_vars

(* Both drivers. *)
SpecAll == (Init \/ InitGen) /\ [][Next \/ NextGen]_vars

(* ---------------- to_hot_update_chunk_name on its own ---------------- *)

(* the segments of the names: "" gives names such as ".js" and "main." *)
SegAlphabet == {"main", "a", "js", ""}

(* the chunk names passed in: up to MaxSegments segments, MaxSegments - 1 dots *)
ChunkNameInputs == UNION {[1..n -> SegAlphabet] : n \in 1..MaxSegments}

HashInputs == {0, 40, 12345}

InitName ==
    /\ driver = "name"
    /\ config = DevConfig
    /\ module_graph = [m \in ModuleIds |-> 0]
    /\ chunk_graph = << >>
    /\ assets_info = << >>
    /\ src_files = {}
    /\ dir_exists = FALSE
    /\ dist = << >>
    /\ pc = "name_call"
    /\ \E n \in ChunkNameInputs, h \in HashInputs :
          frame = [op |-> "name", chunk_name |-> n, hash |-> h, out |-> << >>]
    /\ cg_readers = 0
    /\ assets_locked = FALSE
    /\ result = NoResult
    /\ stored_hash = 0
    /\ keyed = {}
    /\ rebuilds = 0
    /\ log = << >>

(* lines 338-347: the call *)
ApplyName ==
    /\ pc = "name_call"
    /\ frame' = [frame EXCEPT !.out = to_hot_update_chunk_name(frame.chunk_name, frame.hash)]
    /\ pc' = "name_done"
    /\ UNCHANGED <<driver, config, module_graph, chunk_graph, assets_info, src_files,
                   dir_exists, dist, cg_readers, assets_locked, result, stored_hash,
                   keyed, rebuilds, log>>

NextName == ApplyName

SpecName == InitName /\ [][NextName]_vars

(* ---------------- properties ---------------- *)

LogIdx(op) == {i \in 1..Len(log) : log[i].op = op}

(* A generate_hot_update_chunks call is running or was the last call. *)
InHot == frame.op = "hot"

(* ... and it has returned. *)
HotReturned == InHot /\ pc = "idle"

(* ... and it has computed the full hash. *)
HotHashed == InHot /\ LogIdx("full_hash") # {}

(* ... and it has written its manifest. *)
ManifestWritten ==
    /\ InHot
    /\ \E i \in LogIdx("write") : log[i].file = ManifestName(frame.last_full_hash)

(* The value stored under a key of a serialized manifest. *)
ManifestField(m, key) == m[CHOOSE k \in 1..Len(m) : m[k][1] = key][2]

WrittenManifest == dist[ManifestName(frame.last_full_hash)]

Range(sq) == {sq[i] : i \in 1..Len(sq)}

NoDuplicates(sq) == \A i, j \in 1..Len(sq) : sq[i] = sq[j] => i = j

(* C1: a generate_hot_update_chunks call whose full hash equals          *)
(* last_full_hash writes no file, creates no directory and returns Ok of  *)
(* that hash.                                                             *)
C1_NoOpWritesNothing ==
    (HotHashed /\ frame.current_full_hash = frame.last_full_hash) =>
        /\ pc = "idle"
        /\ result = Ok(frame.last_full_hash)
        /\ dist = frame.dist0
        /\ dir_exists = frame.dir0
        /\ \A i \in 1..Len(log) : log[i].op \notin {"write", "create_dir_all"}

(* a no-op rebuild that follows a rebuild which wrote patches *)
C1_Witness ==
    /\ HotReturned /\ HotHashed
    /\ frame.current_full_hash = frame.last_full_hash
    /\ result = Ok(frame.last_full_hash)
    /\ dist # << >>
    /\ dist = frame.dist0

HasSegment(name, seg) == \E k \in 1..Len(name) : name[k] = seg

(* C2: every file a generate_hot_update_chunks call writes is named with  *)
(* last_full_hash, never with the new hash: the manifest is               *)
(* {last_full_hash}.hot-update.json, each patch is                        *)
(* to_hot_update_chunk_name(chunk, last_full_hash); and the manifest of a *)
(* rebuild is named by the hash the preceding rebuild returned, which the *)
(* caller holds.                                                          *)
C2_NamedByLastHash ==
    InHot =>
        /\ \A i \in LogIdx("write") :
            /\ \/ log[i].file = <<HashStr(frame.last_full_hash), "hot-update", "json">>
               \/ \E c \in Range(chunk_graph) :
                    log[i].file = to_hot_update_chunk_name(filename(c), frame.last_full_hash)
            /\ HasSegment(log[i].file, HashStr(frame.last_full_hash))
            /\ ~HasSegment(log[i].file, HashStr(frame.current_full_hash))
            /\ log[i].file \in DOMAIN dist
        /\ pc = "hot_return" =>
                /\ log[Len(log)].op = "write"
                /\ log[Len(log)].file = <<HashStr(stored_hash), "hot-update", "json">>
                /\ ManifestField(dist[log[Len(log)].file], "c") = frame.modified_chunks

(* a second rebuild has written a patch and its manifest *)
C2_Witness ==
    /\ ManifestWritten
    /\ rebuilds >= 2
    /\ Cardinality(LogIdx("write")) >= 2
    /\ frame.last_full_hash # frame.current_full_hash

(* C3: the removed list of a written manifest holds exactly the chunk     *)
(* names of the graph at the start of the call that are not in the        *)
(* regrouped graph, each once.                                            *)
C3_RemovedIsDifference ==
    ManifestWritten =>
        LET removed == ManifestField(WrittenManifest, "r") IN
        /\ Range(removed) = chunk_names(frame.cg0) \ chunk_names(chunk_graph)
        /\ NoDuplicates(removed)

(* a manifest that reports two removed chunks *)
C3_Witness ==
    /\ ManifestWritten
    /\ Len(ManifestField(WrittenManifest, "r")) = 2
    /\ chunk_names(chunk_graph) # {}

(* The position of the chunk with a filename in get_chunks(). *)
ChunkPos(cg, name) == CHOOSE i \in 1..Len(cg) : filename(cg[i]) = name

(* C4: the modified list of a written manifest is the filenames of the    *)
(* chunks of the regrouped graph that hold a module of                    *)
(* updated_modules.modified, each once, in get_chunks() order.            *)
C4_ModifiedIsTouchedChunks ==
    ManifestWritten =>
        LET modified == ManifestField(WrittenManifest, "c") IN
        /\ Range(modified) =
             {filename(c) : c \in {d \in Range(get_chunks(chunk_graph)) :
                                     d.modules \cap frame.updated_modules.modified # {}}}
        /\ NoDuplicates(modified)
        /\ \A i, j \in 1..Len(modified) :
             i < j => ChunkPos(chunk_graph, modified[i]) < ChunkPos(chunk_graph, modified[j])

(* a manifest that lists two of three current chunks as modified *)
C4_Witness ==
    /\ ManifestWritten
    /\ Len(ManifestField(WrittenManifest, "c")) = 2
    /\ Len(chunk_graph) = 3

(* C5: a chunk in the graph before the rebuild and not after it is in the *)
(* removed list and not in the modified list of the manifest; the two     *)
(* lists are disjoint.                                                    *)
C5_RemovedNotModified ==
    ManifestWritten =>
        LET modified == Range(ManifestField(WrittenManifest, "c"))
            removed == Range(ManifestField(WrittenManifest, "r"))
        IN  /\ \A c \in Range(frame.cg0) :
                 filename(c) \notin chunk_names(chunk_graph) =>
                    filename(c) \in removed /\ filename(c) \notin modified
            /\ modified \cap removed = {}

(* a chunk went away while the module it shared with the entry changed *)
C5_Witness ==
    /\ ManifestWritten
    /\ <<"a", "js">> \in Range(ManifestField(WrittenManifest, "r"))
    /\ <<"main", "js">> \in Range(ManifestField(WrittenManifest, "c"))
    /\ "s" \in frame.updated_modules.modified

(* A generate call is running or was the last call. *)
InGenerate == frame.op = "generate"

TransformIdx == LogIdx("transform_all")

(* the per-chunk rendering: generate_chunks_ast, generate_hmr_chunk *)
RenderIdx == LogIdx("generate_chunks_ast") \cup LogIdx("generate_hmr_chunk")

(* C6: a call of generate or of generate_hot_update_chunks invokes        *)
(* transform_all exactly once, after group_chunk and before any per-chunk *)
(* rendering, so a module of several chunks is transformed once per call. *)
C6_TransformOnce ==
    (InGenerate \/ InHot) =>
        /\ Cardinality(TransformIdx) <= 1
        /\ \A t \in TransformIdx : \E g \in LogIdx("group_chunk") : g < t
        /\ \A r \in RenderIdx \cup LogIdx("minify") \cup LogIdx("write") :
              \E t \in TransformIdx : t < r
        /\ pc = "idle" => Cardinality(TransformIdx) = 1

(* a hot update rendered two chunks that share the modified module *)
C6_Witness ==
    /\ HotReturned
    /\ result.kind = "Ok"
    /\ "s" \in frame.updated_modules.modified
    /\ Cardinality(LogIdx("generate_hmr_chunk")) = 2
    /\ Cardinality(TransformIdx) = 1

(* C7: no file is written or copied while the call holds a lock on the    *)
(* chunk graph or on the asset map.                                       *)
C7_NoIoUnderLock ==
    \A i \in 1..Len(log) :
        log[i].op \in {"write", "copy_asset", "copy"} =>
            log[i].cg = 0 /\ ~log[i].assets

(* C8 as stated: over rebuilds that all returned a hash which the caller  *)
(* kept, every file a rebuild writes has a name no earlier rebuild used.  *)
C8_AppendOnly ==
    (InHot /\ frame.prior_ok) => \A i \in LogIdx("write") : log[i].fresh

(* C8, amended: a rebuild whose last_full_hash keyed no earlier rebuild's *)
(* files writes under names no earlier rebuild used, and leaves every     *)
(* earlier file as it was.                                                *)
C8_FreshUnlessKeyed ==
    (InHot /\ frame.last_full_hash \notin keyed) =>
        /\ \A i \in LogIdx("write") : log[i].fresh
        /\ \A f \in DOMAIN frame.dist0 : f \in DOMAIN dist /\ dist[f] = frame.dist0[f]

(* a later rebuild under a new hash wrote a patch and its manifest beside *)
(* the files of an earlier one                                            *)
C8_Witness ==
    /\ ManifestWritten
    /\ frame.last_full_hash \notin keyed
    /\ keyed # {}
    /\ frame.dist0 # << >>
    /\ Cardinality(LogIdx("write")) >= 2

(* a declared asset whose source file is not on disk *)
MissingAsset == \E i \in 1..Len(assets_info) : assets_info[i][1] \notin src_files

(* the output directory holds the file of every chunk of this build *)
HoldsAllChunkFiles ==
    \A j \in 1..Len(frame.chunk_asts) :
        frame.chunk_asts[j].ast.kind \in {"Script", "Css"} =>
            /\ frame.chunk_asts[j].path \in DOMAIN dist
            /\ dist[frame.chunk_asts[j].path] = AstToCode(frame.chunk_asts[j].ast)

(* C9: with a declared asset's source missing, generate never returns Ok, *)
(* and when it aborts on the missing asset the output directory does not  *)
(* hold the full set of chunk files of this build.                        *)
C9_MissingAssetAborts ==
    (InGenerate /\ pc = "idle" /\ MissingAsset) =>
        /\ result.kind # "Ok"
        /\ result.kind = "panic" => ~HoldsAllChunkFiles

ExpectMinified(kind) ==
    config.minify /\ config.mode = "Production" /\ kind \in {"Script", "Css"}

(* the minify stage of the running generate call is over, without error *)
MinifyStageDone ==
    /\ InGenerate
    /\ frame.chunk_asts # << >>
    /\ \/ pc \in {"gen_write", "gen_assets"}
       \/ pc = "idle" /\ result # Err("minify_js")

(* C10: generate minifies a chunk AST iff config.minify and mode is       *)
(* Production, and only script and stylesheet chunks; with mode           *)
(* development and minify on, what is written is the unminified code.     *)
C10_MinifyGate ==
    InGenerate =>
        /\ \A i \in LogIdx("minify") :
              /\ config.minify /\ config.mode = "Production"
              /\ \E j \in 1..Len(frame.chunk_asts) :
                    /\ frame.chunk_asts[j].path = log[i].file
                    /\ frame.chunk_asts[j].ast.kind \in {"Script", "Css"}
        /\ MinifyStageDone =>
              \A j \in 1..Len(frame.chunk_asts) :
                 frame.chunk_asts[j].ast.minified = ExpectMinified(frame.chunk_asts[j].ast.kind)
        /\ \A i \in LogIdx("write") : \A j \in 1..Len(frame.chunk_asts) :
              frame.chunk_asts[j].path = log[i].file =>
                 dist[log[i].file].minified = ExpectMinified(frame.chunk_asts[j].ast.kind)

(* a production build with minify on wrote a minified script and a        *)
(* minified stylesheet, and left the chunk of another kind alone          *)
C10_Witness ==
    /\ InGenerate /\ result = Ok("unit")
    /\ config.minify /\ config.mode = "Production"
    /\ <<"main", "css">> \in DOMAIN dist
    /\ dist[<<"main", "js">>].minified
    /\ dist[<<"main", "css">>].minified
    /\ \E j \in 1..Len(frame.chunk_asts) :
          frame.chunk_asts[j].ast.kind = "None" /\ ~frame.chunk_asts[j].ast.minified

(* C11: over serialized calls that return Ok and whose caller keeps the   *)
(* returned value, the hash held after a call is the full hash of the     *)
(* state that call produced, on the no-op branch and on the patch branch; *)
(* so the next call takes the no-op branch exactly when the module graph  *)
(* is what it was when the client was last told.                          *)
C11_StoredIsCurrentHash ==
    /\ (HotReturned /\ result.kind = "Ok") =>
          /\ result.value = full_hash(module_graph)
          /\ stored_hash = full_hash(module_graph)
    /\ (InHot /\ frame.prior_ok) =>
          /\ frame.last_full_hash = full_hash(frame.mg0)
          /\ HotHashed =>
                ((frame.current_full_hash = frame.last_full_hash)
                    <=> (module_graph = frame.mg0))

(* a patch-writing rebuild returned after an earlier rebuild had returned *)
(* Ok, and the hash held is that of the new state, not the one passed in  *)
C11_Witness ==
    /\ HotReturned /\ result.kind = "Ok"
    /\ frame.prior_ok /\ rebuilds >= 2
    /\ ManifestWritten
    /\ stored_hash = full_hash(module_graph)
    /\ stored_hash # frame.last_full_hash

(* The string a sequence of segments stands for: the segments joined by dots. *)
RECURSIVE PathString(_)
PathString(name) ==
    IF Len(name) = 1 THEN name[1] ELSE name[1] \o "." \o PathString(Tail(name))

(* C12: to_hot_update_chunk_name(name, hash) is name.hash.hot-update when *)
(* name has no dot, and left.hash.hot-update.ext otherwise, left and ext  *)
(* being the parts of name before and after its last dot; so main.js with *)
(* 12345 gives main.12345.hot-update.js and main gives                    *)
(* main.12345.hot-update.                                                 *)
C12_HotUpdateChunkName ==
    pc = "name_done" =>
        LET name == frame.chunk_name
            hash == frame.hash
            out == PathString(frame.out)
            dots == Len(name) - 1
        IN  /\ dots = 0 => out = name[1] \o "." \o ToString(hash) \o ".hot-update"
            /\ dots > 0 =>
                 out = PathString([k \in 1..dots |-> name[k]]) \o "." \o ToString(hash)
                         \o ".hot-update." \o name[dots + 1]
            /\ (name = <<"main", "js">> /\ hash = 12345) => out = "main.12345.hot-update.js"
            /\ (name = <<"main">> /\ hash = 12345) => out = "main.12345.hot-update"
            /\ (name = <<"main", "a", "js">> /\ hash = 40) => out = "main.a.40.hot-update.js"

(* a name with two dots has been renamed: all but the last dot stay left  *)
(* of the hash                                                            *)
C12_Witness ==
    /\ pc = "name_done"
    /\ frame.chunk_name = <<"main", "a", "js">>
    /\ frame.hash = 12345
    /\ PathString(frame.out) = "main.a.12345.hot-update.js"

InDev == frame.op = "emit_dev_chunks"

(* the chunk ASTs of the call that are of the given kind *)
ChunksOfKind(kind) ==
    {i \in 1..Len(frame.chunk_asts) : frame.chunk_asts[i].ast.kind = kind}

(* the names emit_dev_chunks may write for its script chunks *)
DevScriptFiles ==
    {frame.chunk_asts[i].path : i \in ChunksOfKind("Script")}
      \cup (IF config.devtool = "SourceMap"
            THEN {MapName(frame.chunk_asts[i].path) : i \in ChunksOfKind("Script")}
            ELSE {})

AssetOutputs == {assets_info[i][2] : i \in 1..Len(assets_info)}

(* the stage of emit_dev_chunks an event belongs to *)
DevStage(op) ==
    CASE op = "create_dir_all" -> 1
      [] op \in {"write", "codegen_failed"} -> 2
      [] op = "copy_asset" -> 3
      [] op = "copy" -> 4
      [] OTHER -> 0

(* C13: emit_dev_chunks runs no tree-shaking, grouping or transform_all   *)
(* and leaves the chunk graph as it was; it ensures the directory, then   *)
(* writes the code of each script chunk, with a .map sibling only under   *)
(* devtool SourceMap, and nothing for the other chunks, then copies the   *)
(* assets, then runs the configured copy; no other file of the output     *)
(* directory changes.                                                     *)
C13_DevChunksFrame ==
    InDev =>
        /\ chunk_graph = frame.cg0
        /\ \A k \in 1..Len(log) :
              /\ DevStage(log[k].op) > 0
              /\ log[k].op = "write" => log[k].file \in DevScriptFiles
              /\ \A j \in 1..k : DevStage(log[j].op) <= DevStage(log[k].op)
        /\ \A f \in (DOMAIN dist \cup DOMAIN frame.dist0) \ (DevScriptFiles \cup AssetOutputs) :
              /\ f \in DOMAIN dist /\ f \in DOMAIN frame.dist0
              /\ dist[f] = frame.dist0[f]
        /\ (pc = "idle" /\ result.kind = "Ok") =>
              /\ dir_exists
              /\ \A i \in ChunksOfKind("Script") :
                    LET file == frame.chunk_asts[i] IN
                    /\ file.path \in DOMAIN dist
                    /\ dist[file.path] = AstToCode(file.ast)
                    /\ \E k \in LogIdx("write") : log[k].file = file.path
                    /\ IF config.devtool = "SourceMap"
                       THEN /\ MapName(file.path) \in DOMAIN dist
                            /\ dist[MapName(file.path)] = SourceMapOf(file)
                       ELSE \A k \in LogIdx("write") : log[k].file # MapName(file.path)
              /\ \A a \in AssetOutputs :
                    /\ a \in DOMAIN dist
                    /\ \E k \in LogIdx("copy_asset") : log[k].file = a
              /\ LogIdx("copy") = {Len(log)}

(* a successful emit_dev_chunks over a script chunk and a stylesheet      *)
(* chunk, with source maps and an asset: the stylesheet has no file       *)
C13_Witness ==
    /\ InDev /\ pc = "idle" /\ result.kind = "Ok"
    /\ ChunksOfKind("Css") # {} /\ ChunksOfKind("Script") # {}
    /\ config.devtool = "SourceMap"
    /\ assets_info # << >>
    /\ <<"main", "css">> \notin DOMAIN dist
    /\ <<"main", "js", "map">> \in DOMAIN dist
    /\ LogIdx("create_dir_all") = {1}

(* The keys of a serialized object, in the order written. *)
Keys(obj) == [k \in 1..Len(obj) |-> obj[k][1]]

(* A reader of the manifest with the key mapping of the serializer:       *)
(* "c" is the modified list and "r" the removed list.                     *)
ReadManifest(obj) ==
    [modified_chunks |-> ManifestField(obj, "c"),
     removed_chunks |-> ManifestField(obj, "r")]

(* C14: the manifest written for modified list M and removed list R is an *)
(* object with exactly the keys "c" and "r", "c" holding M and "r"        *)
(* holding R, and reading it back under the same key mapping gives M and  *)
(* R again.                                                               *)
C14_ManifestRoundTrip ==
    ManifestWritten =>
        LET M == frame.modified_chunks
            R == frame.removed_chunks
        IN  /\ Len(WrittenManifest) = 2
            /\ Range(Keys(WrittenManifest)) = {"c", "r"}
            /\ \A k \in 1..2 :
                  /\ WrittenManifest[k][1] = "c" => WrittenManifest[k][2] = M
                  /\ WrittenManifest[k][1] = "r" => WrittenManifest[k][2] = R
            /\ ReadManifest(WrittenManifest) = [modified_chunks |-> M, removed_chunks |-> R]

(* a manifest with a non-empty modified list and a different, non-empty   *)
(* removed list has been written                                          *)
C14_Witness ==
    /\ ManifestWritten
    /\ frame.modified_chunks = <<(<<"main", "js">>)>>
    /\ frame.removed_chunks = <<(<<"a", "js">>)>>
    /\ ReadManifest(WrittenManifest).removed_chunks = <<(<<"a", "js">>)>>

(* The position in the log of the write of the call's manifest. *)
ManifestIdx ==
    CHOOSE i \in LogIdx("write") : log[i].file = ManifestName(frame.last_full_hash)

(* C15: when a call has written its manifest, every entry f of the        *)
(* manifest's modified list was rendered and its patch                    *)
(* to_hot_update_chunk_name(f, last_full_hash) written earlier in the     *)
(* same call, no entry having been skipped by a failed lookup; and every  *)
(* patch write of the call precedes the manifest write.                   *)
C15_PatchesBeforeManifest ==
    ManifestWritten =>
        LET modified == ManifestField(WrittenManifest, "c")
            patch(f) == to_hot_update_chunk_name(f, frame.last_full_hash)
        IN  /\ \A k \in 1..Len(modified) :
                 /\ get_chunk_by_name(chunk_graph, modified[k]) # None
                 /\ \E j \in LogIdx("write") :
                       /\ j < ManifestIdx
                       /\ log[j].file = patch(modified[k])
                       /\ log[j - 1].op = "generate_hmr_chunk"
                       /\ log[j - 1].file = modified[k]
                 /\ patch(modified[k]) \in DOMAIN dist
                 /\ dist[patch(modified[k])].hmr = modified[k]
            /\ \A j \in LogIdx("write") :
                 \/ j = ManifestIdx
                 \/ /\ j < ManifestIdx
                    /\ \E k \in 1..Len(modified) : log[j].file = patch(modified[k])
            /\ Cardinality(LogIdx("write")) = Len(modified) + 1

(* a manifest announcing two patches, both written before it *)
C15_Witness ==
    /\ ManifestWritten
    /\ Len(ManifestField(WrittenManifest, "c")) = 2
    /\ Cardinality(LogIdx("write")) = 3
    /\ ManifestIdx = Len(log)
    /\ rebuilds >= 2

(* the stage of generate an event belongs to *)
GenStage(op) ==
    CASE op = "tree_shaking" -> 1
      [] op = "group_chunk" -> 2
      [] op = "transform_all" -> 3
      [] op = "create_dir_all" -> 4
      [] op = "generate_chunks_ast" -> 5
      [] op \in {"minify", "minify_failed"} -> 6
      [] op \in {"write", "codegen_failed"} -> 7
      [] op = "copy_asset" -> 8
      [] op = "copy" -> 9
      [] OTHER -> 0

(* the files generate writes for the chunks of the call *)
GenChunkFiles ==
    {frame.chunk_asts[i].path : i \in ChunksOfKind("Script") \cup ChunksOfKind("Css")}
      \cup (IF config.devtool = "SourceMap"
            THEN {MapName(frame.chunk_asts[i].path) : i \in ChunksOfKind("Script")}
            ELSE {})

(* C16: the steps of a generate call come in the order tree-shaking,      *)
(* grouping, transform_all, ensure directory, render, minify, codegen and *)
(* write, asset copy, configured copy, no step of a stage preceding a     *)
(* step of an earlier one; tree-shaking runs exactly in Production,       *)
(* grouping always; a successful call has run grouping, transform_all and *)
(* render once each, written every chunk file after them and copied every *)
(* asset after the last chunk file, and the configured copy comes last.   *)
C16_StageOrder ==
    InGenerate =>
        /\ \A k \in 1..Len(log) :
              /\ GenStage(log[k].op) > 0
              /\ \A j \in 1..k : GenStage(log[j].op) <= GenStage(log[k].op)
        /\ pc # "gen_tree_shaking" =>
              IF config.mode = "Production"
              THEN LogIdx("tree_shaking") = {1}
              ELSE LogIdx("tree_shaking") = {}
        /\ pc \notin {"gen_tree_shaking", "gen_group_chunk"} =>
              /\ Cardinality(LogIdx("group_chunk")) = 1
              /\ chunk_graph = GroupChunk(module_graph)
        /\ LogIdx("write") # {} =>
              /\ LogIdx("group_chunk") # {} /\ LogIdx("transform_all") # {}
              /\ LogIdx("generate_chunks_ast") # {}
              /\ dir_exists
              /\ config.minify =>
                    Tasks(frame.minify_task, "done") = DOMAIN frame.minify_task
        /\ LogIdx("copy_asset") \cup LogIdx("copy") # {} =>
              /\ GenChunkFiles \subseteq DOMAIN dist
              /\ \A f \in GenChunkFiles : \E k \in LogIdx("write") : log[k].file = f
        /\ (pc = "idle" /\ result.kind = "Ok") =>
              /\ Cardinality(LogIdx("group_chunk")) = 1
              /\ Cardinality(LogIdx("transform_all")) = 1
              /\ Cardinality(LogIdx("generate_chunks_ast")) = 1
              /\ LogIdx("copy") = {Len(log)}
              /\ \A a \in AssetOutputs : \E k \in LogIdx("copy_asset") : log[k].file = a

(* a successful Production build that ran every stage: the directory was  *)
(* created, two chunks minified and written, an asset copied              *)
C16_Witness ==
    /\ InGenerate /\ pc = "idle" /\ result.kind = "Ok"
    /\ config.mode = "Production" /\ config.minify
    /\ LogIdx("tree_shaking") = {1}
    /\ LogIdx("create_dir_all") # {}
    /\ Cardinality(LogIdx("minify")) >= 2
    /\ Cardinality(LogIdx("write")) >= 2
    /\ LogIdx("copy_asset") # {}

(* A minify task or a codegen task of the call has returned an error. *)
TaskFailed == LogIdx("minify_failed") \cup LogIdx("codegen_failed") # {}

(* C17: once the minify or the codegen of a chunk has failed in a         *)
(* generate call, the call copies no asset and does not run the           *)
(* configured copy, and when it returns it returns Err with the error of  *)
(* the failed stage, never Ok; a failed minify leaves no chunk file       *)
(* written, a failed codegen leaves at most the files of other chunks.    *)
C17_TaskErrorAborts ==
    (InGenerate /\ TaskFailed) =>
        /\ LogIdx("copy_asset") = {} /\ LogIdx("copy") = {}
        /\ pc \in {"gen_minify", "gen_write", "idle"}
        /\ ~assets_locked
        /\ result.kind # "Ok"
        /\ pc = "idle" =>
              /\ result.kind = "Err"
              /\ LogIdx("minify_failed") # {} => result.value = "minify_js"
              /\ LogIdx("codegen_failed") # {} => result.value = "js_ast_to_code"
        /\ LogIdx("minify_failed") # {} => dist = frame.dist0
        /\ \A k \in LogIdx("codegen_failed"), j \in LogIdx("write") :
              log[j].file \notin {log[k].file, MapName(log[k].file)}
        /\ \A f \in DOMAIN dist :
              \/ f \in DOMAIN frame.dist0 /\ dist[f] = frame.dist0[f]
              \/ \E j \in LogIdx("write") : log[j].file = f

(* the codegen of one chunk failed after the file of another chunk was    *)
(* written, and the call has returned Err                                 *)
C17_Witness ==
    /\ InGenerate /\ pc = "idle"
    /\ LogIdx("codegen_failed") # {}
    /\ LogIdx("write") # {}
    /\ result = Err("js_ast_to_code")
    /\ assets_info # << >>
    /\ dist # frame.dist0

(* The chunk ASTs as rendered at line 49, before any task has run. *)
RenderedAsts == generate_chunks_ast(chunk_graph, module_graph)

(* The tasks run one after the other, each from start to end, in the      *)
(* order of the chunks: first every minify task, then every write task.   *)
RECURSIVE SequentialWrites(_, _, _)
SequentialWrites(d, files, k) ==
    IF k > Len(files) THEN d
    ELSE SequentialWrites(WriteTask(config, d, files[k]), files, k + 1)

SequentialDist ==
    SequentialWrites(frame.dist0,
        [i \in 1..Len(RenderedAsts) |->
            IF config.minify THEN MinifyTask(config, RenderedAsts[i]) ELSE RenderedAsts[i]],
        1)

DistinctPaths ==
    \A i, j \in 1..Len(frame.chunk_asts) :
        frame.chunk_asts[i].path = frame.chunk_asts[j].path => i = j

(* C18: in the fan-out of generate over chunks with distinct paths, the   *)
(* AST of a chunk is changed by the minify task of that chunk only; no    *)
(* codegen+write task starts before every minify task has finished; and   *)
(* whatever the interleaving of the tasks, once all of them are done the  *)
(* chunk files in the output directory, names and contents, are those of  *)
(* the sequential execution.                                              *)
C18_FanOutIndependent ==
    (InGenerate /\ frame.chunk_asts # << >> /\ DistinctPaths) =>
        /\ \A i \in 1..Len(frame.chunk_asts) :
              frame.chunk_asts[i] =
                 IF config.minify /\ frame.minify_task[i] = "done"
                 THEN MinifyTask(config, RenderedAsts[i])
                 ELSE RenderedAsts[i]
        /\ Tasks(frame.write_task, "todo") # DOMAIN frame.write_task =>
              /\ config.minify =>
                    Tasks(frame.minify_task, "done") = DOMAIN frame.minify_task
              /\ \A j \in LogIdx("minify"),
                    k \in LogIdx("write") \cup LogIdx("codegen_failed") : j < k
        /\ Tasks(frame.write_task, "done") = DOMAIN frame.write_task =>
              /\ DOMAIN dist \subseteq DOMAIN SequentialDist \cup AssetOutputs
              /\ \A f \in DOMAIN SequentialDist \ AssetOutputs :
                    f \in DOMAIN dist /\ dist[f] = SequentialDist[f]

(* both fan-outs are over: the minify tasks ran in the order a.js,        *)
(* main.js, and the source map of main.js was written after the code of   *)
(* a.js, which was written after the code of main.js                      *)
C18_Witness ==
    /\ InGenerate /\ pc = "gen_assets" /\ frame.i = 1
    /\ config.minify /\ config.mode = "Production" /\ config.devtool = "SourceMap"
    /\ DistinctPaths
    /\ \E j, k \in LogIdx("minify") :
          j < k /\ log[j].file = <<"a", "js">> /\ log[k].file = <<"main", "js">>
    /\ \E j, k, l \in LogIdx("write") :
          /\ j < k /\ k < l
          /\ log[j].file = <<"main", "js">>
          /\ log[k].file = <<"a", "js">>
          /\ log[l].file = <<"main", "js", "map">>
    /\ dist = SequentialDist

(* The chunks of the regrouped graph whose name was not in the graph at   *)
(* the start of the call and that hold no modified module.                *)
NewUntouchedChunks ==
    {c \in Range(chunk_graph) :
        /\ filename(c) \notin chunk_names(frame.cg0)
        /\ c.modules \cap frame.updated_modules.modified = {}}

(* The writes of the call's manifest. *)
ManifestWrites ==
    {i \in LogIdx("write") : log[i].file = ManifestName(frame.last_full_hash)}

(* C19: in a call that writes a manifest, a chunk that is new in the      *)
(* regrouped graph and holds no modified module is in neither list of the *)
(* manifest and no patch is rendered or written for it; and a call that   *)
(* finds a new hash and returns Ok has written its manifest exactly once, *)
(* also when both lists are empty.                                        *)
C19_NewChunkUnannounced ==
    /\ ManifestWritten =>
          \A c \in NewUntouchedChunks :
              /\ filename(c) \notin Range(ManifestField(WrittenManifest, "c"))
              /\ filename(c) \notin Range(ManifestField(WrittenManifest, "r"))
              /\ \A i \in 1..Len(log) :
                    /\ log[i].file # filename(c)
                    /\ log[i].file # to_hot_update_chunk_name(filename(c), frame.last_full_hash)
    /\ InHot => Cardinality(ManifestWrites) <= 1
    /\ (HotReturned /\ result.kind = "Ok"
          /\ frame.current_full_hash # frame.last_full_hash) =>
          /\ Cardinality(ManifestWrites) = 1
          /\ ManifestName(frame.last_full_hash) \in DOMAIN dist
          /\ dist[ManifestName(frame.last_full_hash)] =
                HotUpdateManifest(frame.modified_chunks, frame.removed_chunks)

(* a call in which the only change is a new chunk: the manifest is        *)
(* written with both lists empty and is the only file written             *)
C19_Witness ==
    /\ HotReturned /\ result.kind = "Ok"
    /\ ManifestWritten
    /\ NewUntouchedChunks # {}
    /\ ManifestField(WrittenManifest, "c") = << >>
    /\ ManifestField(WrittenManifest, "r") = << >>
    /\ Cardinality(LogIdx("write")) = 1

(* The call has returned the error of transform_all. *)
TransformFailed == HotReturned /\ result = Err("transform_all")

====
